---- MODULE Spec2Model ----
(***************************************************************************)
(* Startup Graveyard: the 3D scene of src/src/app/GraveyardCanvas.tsx and  *)
(* the page that feeds it, src/src/app/layout.tsx (HomePage).              *)
(*                                                                         *)
(* Numbers are fixed point.  World lengths are in hundredths of a world    *)
(* unit (3.2 units = 320), angles and the components of unit vectors in    *)
(* ten-thousandths (1 rad = 10000, -0.2 rad = -2000), frame time in        *)
(* milliseconds, mouse coordinates and wheel deltas in pixels.             *)
(*                                                                         *)
(* One render frame is one action, Tick: react-three-fiber calls the       *)
(* useFrame callbacks one after the other, in subscription order, with no  *)
(* input event in between (one thread), and React commits the state the    *)
(* callbacks set before the next frame.                                    *)
(***************************************************************************)
EXTENDS Integers, Sequences, FiniteSets, TLC

VARIABLES
    allStartups,      \* HomePage.allStartups: the records of dead_startups.json
    activeSector,     \* HomePage.activeSector
    hoveredStartup,   \* HomePage.hoveredStartup: id of the record, 0 for null
    tooltipPos,       \* HomePage.tooltipPos: "pixel" for {x, y}, "null" for null
    selectedStartup,  \* HomePage.selectedStartup: id of the record, 0 for null
    hoverCalls,       \* the last two calls of onHover, oldest first
    startups,         \* GraveyardScene's prop startups
    gravePositions,   \* GraveyardScene.gravePositions
    count,            \* ProgressiveGraves.count
    frameRef,         \* ProgressiveGraves.frameRef.current
    subscribers,      \* react-three-fiber's list of useFrame callbacks
    showLabel,        \* Grave.showLabel of each mounted Grave, by record id
    hovered,          \* Grave.hovered of each mounted Grave, by record id
    camRead,          \* camera.position as each Grave's useFrame last read it
    keys,             \* CameraControls.keysRef.current
    mouse,            \* CameraControls.mouseRef.current
    yaw,              \* CameraControls.yawRef.current
    pitch,            \* CameraControls.pitchRef.current
    camPos,           \* camera.position
    camQuat,          \* camera.quaternion, as the Euler angles it was set from
    cursor,           \* document.body.style.cursor
    pointer,          \* where the mouse pointer is, and the cursor when it came
    listeners,        \* how many listeners of each event type are registered
    rngs              \* the closures returned by seededRandom so far

vars == <<allStartups, activeSector, hoveredStartup, tooltipPos, selectedStartup,
          hoverCalls, startups, gravePositions, count, frameRef, subscribers,
          showLabel, hovered, camRead, keys, mouse, yaw, pitch, camPos, camQuat,
          cursor, pointer, listeners, rngs>>

pageVars   == <<allStartups, activeSector, hoveredStartup, tooltipPos,
                selectedStartup, hoverCalls>>
listVars   == <<startups, gravePositions>>
revealVars == <<count, frameRef, subscribers>>
graveVars  == <<showLabel, hovered, camRead>>
inputVars  == <<keys, mouse, yaw, pitch>>
cameraVars == <<keys, mouse, yaw, pitch, camPos, camQuat>>
domVars    == <<cursor, pointer>>
sceneVars  == <<listeners, rngs>>

(***************************************************************************)
(* Bounds of the model.                                                    *)
(***************************************************************************)
SmallData == 3          \* a data set below the initial batch
MidData == 37           \* a data set one batch above the initial batch
BigData == 45           \* a data set two batches above the initial batch
MaxLayoutN == 110       \* longest list handed to the scene directly
MaxFrames == 40         \* frames rendered in one run
MaxCameraFrames == 2    \* frames rendered in a run of the camera alone
MaxHoverFrames == 4     \* frames rendered in a run of the marker interaction
MaxCoord == 4000        \* the camera stays within 40 units of the origin
MaxCameraCoord == 1500  \* ... within 15 units in a run of the camera alone
MaxWalkFrames == 1      \* frames rendered in a run of the walk alone
MaxRngs == 2            \* closures made by seededRandom in one run
MaxDraws == 3           \* calls of one closure
MaxYaw == 3000          \* mouse drags turn the camera at most 0.3 rad to
                        \* either side of the initial yaw

(***************************************************************************)
(* Arithmetic.                                                             *)
(***************************************************************************)
Scale == 100 * 100

Min(a, b) == IF a <= b THEN a ELSE b
Max(a, b) == IF a >= b THEN a ELSE b
Abs(a) == IF a >= 0 THEN a ELSE -a

\* a / b rounded to the nearest integer, b > 0
RDiv(a, b) == IF a >= 0 THEN (a + b \div 2) \div b ELSE -((b \div 2 - a) \div b)

\* the largest r in lo..hi with r * r <= n, by bisection
RECURSIVE SqrtSearch(_, _, _)
SqrtSearch(n, lo, hi) ==
    IF lo >= hi THEN lo
    ELSE CHOOSE r \in {IF mid * mid <= n THEN SqrtSearch(n, mid, hi)
                                         ELSE SqrtSearch(n, lo, mid - 1) :
                           mid \in {(lo + hi + 1) \div 2}} : TRUE

\* floor(sqrt(n)) for 0 <= n < 2^30
FloorSqrt(n) == SqrtSearch(n, 0, Min(n, 32767))

\* Math.ceil(Math.sqrt(n))
CeilSqrt(n) == LET r == FloorSqrt(n) IN IF r * r = n THEN r ELSE r + 1

PI == 31416
TwoPi == 2 * PI
HalfPi == PI \div 2

\* sin x for 0 <= x <= pi/2, by its Taylor series to the x^9 term
SinQ(x) ==
    LET x2 == (x * x) \div Scale
        a == Scale - x2 \div 72
        b == Scale - ((x2 \div 42) * a) \div Scale
        c == Scale - ((x2 \div 20) * b) \div Scale
        d == Scale - ((x2 \div 6) * c) \div Scale
    IN Min(Scale, RDiv(x * d, Scale))

\* Math.sin and Math.cos
Sin(x) ==
    LET n == x % TwoPi
    IN IF n <= HalfPi THEN SinQ(n)
       ELSE IF n <= PI THEN SinQ(PI - n)
       ELSE IF n <= PI + HalfPi THEN -SinQ(n - PI)
       ELSE -SinQ(TwoPi - n)

Cos(x) == Sin(x + HalfPi)

(***************************************************************************)
(* seededRandom: the generator's state is the integer s; a draw replaces   *)
(* s by s * 16807 % 2147483647 and returns (s - 1) / 2147483646.           *)
(***************************************************************************)
Modulus == 2147483647
Multiplier == 16807

\* r * 16807 mod 2147483647 for 0 <= r < 2147483647, with no intermediate
\* above 2^31 (Schrage's split; the code's product is exact in a double)
MulMod(r) ==
    LET q == Modulus \div Multiplier
        m == Modulus % Multiplier
        t == Multiplier * (r % q) - m * (r \div q)
    IN IF t < 0 THEN t + Modulus ELSE t

\* s = (s * 16807 + 0) % 2147483647, the remainder taking the sign of s
seededRandomStep(s) ==
    LET t == MulMod(Abs(s) % Modulus) IN IF s < 0 THEN -t ELSE t

\* (s - 1) / 2147483646, in ten-thousandths
seededRandomValue(s) ==
    IF s >= 1 THEN (s - 1) \div ((Modulus - 1) \div Scale + 1)
    ELSE -(((1 - s) \div ((Modulus - 1) \div Scale + 1)) + 1)

\* let s = seed: the closure seededRandom(seed) returns, with the values it
\* has returned so far
NewClosure(seed) == [seed |-> seed, s |-> seed, out |-> <<>>]

\* a variable s that the first closure made is shared with every later one
ModuleState(closures, i) == closures[1].s

\* the variable s a call of closure i reads: the closure's own
ClosureState(closures, i) == closures[i].s

\* a call of closure i: s is replaced, the value of the new s is returned
CallClosure(closures, i) ==
    [closures EXCEPT
        ![i].s = seededRandomStep(ClosureState(closures, i)),
        ![i].out = Append(@, seededRandomValue(
                                seededRandomStep(ClosureState(closures, i))))]

(***************************************************************************)
(* HomePage: the data set and the sector filter.                           *)
(***************************************************************************)
\* the sector field of the i-th record of a data set ("" when it is missing)
SectorOf(i) ==
    IF i % 5 = 0 THEN "health" ELSE IF i % 7 = 0 THEN "" ELSE "Fintech"

MakeData(n) == [i \in 1..n |-> [id |-> i, sector |-> SectorOf(i)]]

DataSizes == {0, SmallData, MidData, BigData}

\* String.toLowerCase on the sector names of the data
toLowerCase(s) == IF s = "Fintech" THEN "fintech" ELSE s

\* s.sector?.toLowerCase() || "unknown"
SectorKey(st) ==
    IF toLowerCase(st.sector) = "" THEN "unknown" ELSE toLowerCase(st.sector)

\* HomePage.sectors, as a set
sectors(all) == {"all"} \cup {SectorKey(all[i]) : i \in 1..Len(all)}

\* HomePage.filteredStartups; search is "" for ever (its input is commented
\* out), so the second filter never applies
filteredStartups(all, sector) ==
    IF sector # "all"
    THEN SelectSeq(all, LAMBDA st : SectorKey(st) = sector)
    ELSE all

(***************************************************************************)
(* GraveyardScene.gravePositions                                           *)
(***************************************************************************)
spacing == 320
GraveSeed == 123

\* the column count rounded down instead of up
GraveColsFloor(n) == FloorSqrt(n)

\* const cols = Math.ceil(Math.sqrt(startups.length))
GraveCols(n) == CeilSqrt(n)

\* const row = Math.floor(i / cols), for the 0-based index i
GraveRow(i, cols) == i \div cols

\* const col = i % cols
GraveCol(i, cols) == i % cols

\* (rng() - 0.5) * 0.5 for the draw that left the generator in state s
Jitter(s) == RDiv((seededRandomValue(s) - Scale \div 2) * 50, Scale)

\* the states the generator of state s is left in by each of its next k
\* draws, in order: the first half of the draws, then the rest from the state
\* the first half ends in
RECURSIVE rngStates(_, _)
rngStates(s, k) ==
    IF k = 0 THEN <<>>
    ELSE IF k = 1 THEN <<seededRandomStep(s)>>
    ELSE CHOOSE r \in {a \o rngStates(a[Len(a)], k - k \div 2) :
                           a \in {rngStates(s, k \div 2)}} : TRUE

\* the position of the record of 0-based index i; sx and sz are the states
\* the generator is left in by the draw for x and by the draw for z
GravePosition(i, cols, sx, sz) ==
    [x |-> RDiv((2 * GraveCol(i, cols) - cols) * spacing, 2) + Jitter(sx),
     y |-> 0,
     z |-> GraveRow(i, cols) * spacing + Jitter(sz)]

\* startups.forEach with const rng = seededRandom(123): record i takes the
\* draws 2i + 1 and 2i + 2 of the one generator
forEachGrave(n, cols, draws) ==
    [i \in 1..n |-> GravePosition(i - 1, cols, draws[2 * i - 1], draws[2 * i])]

GravePositionsOf(list) ==
    CHOOSE positions \in {forEachGrave(Len(list), GraveCols(Len(list)), draws) :
                             draws \in {rngStates(GraveSeed, 2 * Len(list))}} : TRUE

(***************************************************************************)
(* ProgressiveGraves                                                       *)
(***************************************************************************)
InitialBatch == 30
BatchSize == 8
Period == 10

\* useState(Math.min(30, allStartups.length))
InitialCount(list) == Min(InitialBatch, Len(list))

\* the advance without its clamp to the length of the list
NextCountUnclamped(c, list) == c + BatchSize

\* setCount((c) => Math.min(c + 8, allStartups.length))
NextCount(c, list) == Min(c + BatchSize, Len(list))

\* the useFrame callback: the new frameRef.current and count
ProgressiveFrame(frame, c, list) ==
    LET f == frame + 1
    IN [frameRef |-> f,
        count |-> IF f % Period = 0 /\ c < Len(list) THEN NextCount(c, list) ELSE c]

\* allStartups.slice(0, count): the 1-based indices of the rendered Graves
Rendered(list, c) == 1..Min(c, Len(list))

\* the keys (startup.id) of the rendered Graves
MountedIds(list, c) == {list[i].id : i \in Rendered(list, c)}

\* the index of the rendered Grave of key id
IndexOfId(list, id) == CHOOSE i \in 1..Len(list) : list[i].id = id

(***************************************************************************)
(* CameraControls                                                          *)
(***************************************************************************)
InitPitch == -2000
SensitivityX == 30          \* yawRef.current -= dx * 0.003
SensitivityY == 30          \* pitchRef.current -= dy * 0.003
Speed == 8
ClampYMin == 200
ClampYMax == 1500
CanvasPitch == -4636        \* the Canvas camera at [0, 3, -6] looks at the origin

\* -Math.PI / 2.5 and Math.PI / 6
PitchMin == -((2 * PI) \div 5)
PitchMax == PI \div 6

\* camera.position.set(0, 3, -10)
InitCamPos == [x |-> 0, y |-> 300, z |-> -1000]

\* the clamp without its lower bound
ClampPitchAbove(p) == Min(PitchMax, p)

\* Math.max(-Math.PI / 2.5, Math.min(Math.PI / 6, p))
ClampPitch(p) == Max(PitchMin, Min(PitchMax, p))

\* THREE.MathUtils.clamp(y, 2, 15)
ClampY(y) == Max(ClampYMin, Min(ClampYMax, y))

\* Vector3.addScaledVector(v, k), k in hundredths of a unit
addScaledVector(p, v, k) ==
    [x |-> p.x + RDiv(v.x * k, Scale),
     y |-> p.y + RDiv(v.y * k, Scale),
     z |-> p.z + RDiv(v.z * k, Scale)]

\* Vector3.normalize, of a vector of components within -Scale..Scale
normalize(v) ==
    LET len == FloorSqrt(v.x * v.x + v.y * v.y + v.z * v.z)
    IN IF len = 0 THEN [x |-> 0, y |-> 0, z |-> 0]
       ELSE [x |-> RDiv(v.x * Scale, len),
             y |-> RDiv(v.y * Scale, len),
             z |-> RDiv(v.z * Scale, len)]

\* camera.getWorldDirection: the -Z axis turned by the camera's quaternion,
\* which is Euler(pitch, yaw, 0, "YXZ") of the angles it was last set from
getWorldDirection(q) ==
    [x |-> -RDiv(Sin(q.yaw) * Cos(q.pitch), Scale),
     y |-> Sin(q.pitch),
     z |-> -RDiv(Cos(q.yaw) * Cos(q.pitch), Scale)]

\* the direction without dir.y = 0
WheelDirUnflattened(q) == normalize(getWorldDirection(q))

\* dir.y = 0; dir.normalize()
WheelDir(q) == normalize([getWorldDirection(q) EXCEPT !.y = 0])

\* onWheel: the new camera.position
WheelPosition(p, q, deltaY) == addScaledVector(p, WheelDir(q), -deltaY)

\* e.key.toLowerCase()
KeyLower(k) ==
    CASE k = "W" -> "w"
      [] k = "ArrowUp" -> "arrowup"
      [] k = "ArrowDown" -> "arrowdown"
      [] k = "ArrowLeft" -> "arrowleft"
      [] k = "ArrowRight" -> "arrowright"
      [] OTHER -> k

\* the callback with its four tests chained by else: of two opposite keys
\* held together the first one wins
CameraFrameExclusive(p, held, yw, pt, delta) ==
    LET speed == RDiv(Speed * delta, 10)
        forward == [x |-> -Sin(yw), y |-> 0, z |-> -Cos(yw)]
        right == [x |-> Cos(yw), y |-> 0, z |-> -Sin(yw)]
        p4 == IF "w" \in held \/ "arrowup" \in held
              THEN addScaledVector(p, forward, speed)
              ELSE IF "s" \in held \/ "arrowdown" \in held
              THEN addScaledVector(p, forward, -speed)
              ELSE IF "a" \in held \/ "arrowleft" \in held
              THEN addScaledVector(p, right, -speed)
              ELSE IF "d" \in held \/ "arrowright" \in held
              THEN addScaledVector(p, right, speed) ELSE p
    IN [camPos |-> [p4 EXCEPT !.y = ClampY(p4.y)],
        camQuat |-> [yaw |-> yw, pitch |-> pt]]

\* the useFrame callback of CameraControls: the new position and quaternion
CameraFrame(p, held, yw, pt, delta) ==
    LET speed == RDiv(Speed * delta, 10)
        forward == [x |-> -Sin(yw), y |-> 0, z |-> -Cos(yw)]
        right == [x |-> Cos(yw), y |-> 0, z |-> -Sin(yw)]
        p1 == IF "w" \in held \/ "arrowup" \in held
              THEN addScaledVector(p, forward, speed) ELSE p
        p2 == IF "s" \in held \/ "arrowdown" \in held
              THEN addScaledVector(p1, forward, -speed) ELSE p1
        p3 == IF "a" \in held \/ "arrowleft" \in held
              THEN addScaledVector(p2, right, -speed) ELSE p2
        p4 == IF "d" \in held \/ "arrowright" \in held
              THEN addScaledVector(p3, right, speed) ELSE p3
    IN [camPos |-> [p4 EXCEPT !.y = ClampY(p4.y)],
        camQuat |-> [yaw |-> yw, pitch |-> pt]]

(***************************************************************************)
(* Grave                                                                   *)
(***************************************************************************)
LabelDistance == 22

\* camera.position.distanceTo(position) < 22, on the squares
Near(p, g) ==
    (p.x - g.x) * (p.x - g.x) + (p.y - g.y) * (p.y - g.y)
        + (p.z - g.z) * (p.z - g.z)
    < (LabelDistance * 100) * (LabelDistance * 100)

NoRead == [x |-> 0, y |-> 0, z |-> 0, none |-> TRUE]

\* the callback never hiding a label it has shown
GraveFrameSticky(st, id, g) ==
    [st EXCEPT !.showLabel[id] = st.showLabel[id] \/ Near(st.camPos, g),
               !.camRead[id] = st.camPos]

\* the useFrame callback of the Grave of key id, whose position prop is g:
\* on the state st of the frame so far
GraveFrame(st, id, g) ==
    [st EXCEPT !.showLabel[id] = Near(st.camPos, g),
               !.camRead[id] = st.camPos]

(***************************************************************************)
(* One frame: the callbacks in subscription order.                         *)
(***************************************************************************)
GraveSub(id) == [kind |-> "grave", id |-> id]
ProgressiveSub == [kind |-> "progressive", id |-> 0]
CameraSub == [kind |-> "camera", id |-> 0]

RunCallback(st, sub, delta) ==
    CASE sub.kind = "grave" ->
            GraveFrame(st, sub.id, gravePositions[IndexOfId(startups, sub.id)])
      [] sub.kind = "progressive" ->
            LET r == ProgressiveFrame(st.frameRef, st.count, startups)
            IN [st EXCEPT !.frameRef = r.frameRef, !.count = r.count]
      [] sub.kind = "camera" ->
            LET r == CameraFrame(st.camPos, keys, yaw, pitch, delta)
            IN [st EXCEPT !.camPos = r.camPos, !.camQuat = r.camQuat]

\* the callbacks lo..hi in order, each on the state its predecessor left: the
\* first half of them, then the rest on the state the first half leaves
RECURSIVE RunFrame(_, _, _, _, _)
RunFrame(st, subs, lo, hi, delta) ==
    IF lo > hi THEN st
    ELSE IF lo = hi THEN RunCallback(st, subs[lo], delta)
    ELSE CHOOSE r \in {RunFrame(x, subs, (lo + hi) \div 2 + 1, hi, delta) :
                           x \in {RunFrame(st, subs, lo, (lo + hi) \div 2, delta)}} : TRUE

(***************************************************************************)
(* React's commit of ProgressiveGraves: Graves are keyed by startup.id; a  *)
(* Grave whose key stays rendered keeps its state and its subscription, a  *)
(* new one mounts (and subscribes, after every callback subscribed so      *)
(* far), one whose key is gone unmounts (and unsubscribes).                *)
(***************************************************************************)
\* the Graves among the first n of list that are not subscribed subscribe, in
\* the order of the list
SubscribeNew(subs, list, n) ==
    subs \o SelectSeq([i \in 1..n |-> GraveSub(list[i].id)],
                      LAMBDA g : \A k \in 1..Len(subs) : subs[k] # g)

Resubscribe(subs, list, c) ==
    CHOOSE r \in {SubscribeNew(kept, list, Min(c, Len(list))) :
                     kept \in {SelectSeq(subs, LAMBDA s : s.kind # "grave"
                                                  \/ s.id \in MountedIds(list, c))}} : TRUE

\* the state of the Graves after the commit: f before it, init for a new one
Remount(f, list, c, init) ==
    [id \in MountedIds(list, c) |-> IF id \in DOMAIN f THEN f[id] ELSE init]

\* the subscriptions right after the first render: the Graves' effects run
\* before their parent's, ProgressiveGraves' before its later sibling's
InitialSubscribers(list) ==
    SubscribeNew(<<>>, list, InitialCount(list)) \o <<ProgressiveSub, CameraSub>>

\* the pointer after a commit: an Html element or a Grave that is gone has
\* the pointer no more, and no event tells
PointerAfter(ptr, show) ==
    IF ptr.kind = "none" THEN ptr
    ELSE IF ptr.id \notin DOMAIN show THEN [ptr EXCEPT !.kind = "none", !.id = 0]
    ELSE IF ptr.kind = "div" /\ ~show[ptr.id] THEN [ptr EXCEPT !.kind = "none", !.id = 0]
    ELSE ptr

(***************************************************************************)
(* The state after the first render and its effects.                       *)
(***************************************************************************)
NoPointer == [kind |-> "none", id |-> 0, before |-> ""]

\* the event types CameraControls listens to, on window and on the canvas
WindowEvents == {"keydown", "keyup", "mouseup", "mousemove"}
CanvasEvents == {"mousedown", "wheel"}

NoListeners == [t \in WindowEvents \cup CanvasEvents |-> 0]

\* the six addEventListener calls of the effect, each of a new closure
AddListeners(l) == [t \in WindowEvents \cup CanvasEvents |-> l[t] + 1]

\* a cleanup that releases the listeners on window alone
RemoveWindowListeners(l) ==
    [t \in WindowEvents \cup CanvasEvents |->
        IF t \in WindowEvents THEN Max(0, l[t] - 1) ELSE l[t]]

\* the six removeEventListener calls of the effect's cleanup, of the closures
\* the effect added
RemoveListeners(l) == [t \in WindowEvents \cup CanvasEvents |-> Max(0, l[t] - 1)]

InitWith(data) ==
    /\ allStartups = data
    /\ activeSector = "all"
    /\ hoveredStartup = 0
    /\ tooltipPos = "null"
    /\ selectedStartup = 0
    /\ hoverCalls = <<>>
    /\ startups = filteredStartups(data, "all")
    /\ gravePositions = GravePositionsOf(filteredStartups(data, "all"))
    /\ count = InitialCount(filteredStartups(data, "all"))
    /\ frameRef = 0
    /\ subscribers = InitialSubscribers(filteredStartups(data, "all"))
    /\ showLabel = [id \in MountedIds(data, InitialCount(data)) |-> FALSE]
    /\ hovered = [id \in MountedIds(data, InitialCount(data)) |-> FALSE]
    /\ camRead = [id \in MountedIds(data, InitialCount(data)) |-> NoRead]
    /\ keys = {}
    /\ mouse = [isDown |-> FALSE, lastX |-> 0, lastY |-> 0]
    /\ yaw = PI
    /\ pitch = InitPitch
    /\ camPos = InitCamPos
    /\ camQuat = [yaw |-> PI, pitch |-> CanvasPitch]
    /\ cursor = ""
    /\ pointer = NoPointer
    /\ listeners = AddListeners(NoListeners)
    /\ rngs = <<>>

Init == \E n \in DataSizes : InitWith(MakeData(n))

(***************************************************************************)
(* HomePage: a sector button is clicked.                                   *)
(***************************************************************************)
\* the scene renders with the list `list` as its prop startups
RenderList(list) ==
    /\ startups' = list
    /\ gravePositions' = GravePositionsOf(list)
    /\ subscribers' = Resubscribe(subscribers, list, count)
    /\ showLabel' = Remount(showLabel, list, count, FALSE)
    /\ hovered' = Remount(hovered, list, count, FALSE)
    /\ camRead' = Remount(camRead, list, count, NoRead)
    /\ pointer' = PointerAfter(pointer, Remount(showLabel, list, count, FALSE))
    /\ UNCHANGED <<count, frameRef, cameraVars, cursor>>

setActiveSector(s) ==
    /\ s \in sectors(allStartups)
    /\ s # activeSector
    /\ activeSector' = s
    /\ RenderList(filteredStartups(allStartups, s))
    /\ UNCHANGED <<sceneVars, allStartups, hoveredStartup, tooltipPos, selectedStartup, hoverCalls>>

\* the scene is handed another list of n records by its caller
ReplaceStartups(n) ==
    /\ Len(startups) # n
    /\ RenderList(MakeData(n))
    /\ UNCHANGED <<sceneVars, pageVars>>

(***************************************************************************)
(* One render frame of dt milliseconds.                                    *)
(***************************************************************************)
FrameResult(dt) ==
    RunFrame([camPos |-> camPos, camQuat |-> camQuat, count |-> count,
              frameRef |-> frameRef, showLabel |-> showLabel, camRead |-> camRead],
             subscribers, 1, Len(subscribers), dt)

Tick(dt, maxFrames, maxCoord) ==
    /\ subscribers # <<>>
    /\ frameRef < maxFrames
    /\ \E st \in {FrameResult(dt)} :
          /\ Abs(st.camPos.x) <= maxCoord
          /\ Abs(st.camPos.z) <= maxCoord
          /\ camPos' = st.camPos
          /\ camQuat' = st.camQuat
          /\ frameRef' = st.frameRef
          /\ count' = st.count
          /\ subscribers' = Resubscribe(subscribers, startups, st.count)
          /\ showLabel' = Remount(st.showLabel, startups, st.count, FALSE)
          /\ hovered' = Remount(hovered, startups, st.count, FALSE)
          /\ camRead' = Remount(st.camRead, startups, st.count, NoRead)
          /\ pointer' = PointerAfter(pointer, st.showLabel)
    /\ UNCHANGED <<sceneVars, pageVars, listVars, inputVars, cursor>>

(***************************************************************************)
(* CameraControls: the input listeners.                                    *)
(***************************************************************************)
onKeyDown(k) ==
    /\ listeners["keydown"] > 0
    /\ keys' = keys \cup {KeyLower(k)}
    /\ UNCHANGED <<sceneVars, pageVars, listVars, revealVars, graveVars, domVars,
                   mouse, yaw, pitch, camPos, camQuat>>

onKeyUp(k) ==
    /\ listeners["keyup"] > 0
    /\ keys' = keys \ {KeyLower(k)}
    /\ UNCHANGED <<sceneVars, pageVars, listVars, revealVars, graveVars, domVars,
                   mouse, yaw, pitch, camPos, camQuat>>

onMouseDown(cx, cy) ==
    /\ listeners["mousedown"] > 0
    /\ mouse' = [isDown |-> TRUE, lastX |-> cx, lastY |-> cy]
    /\ UNCHANGED <<sceneVars, pageVars, listVars, revealVars, graveVars, domVars,
                   keys, yaw, pitch, camPos, camQuat>>

onMouseUp ==
    /\ listeners["mouseup"] > 0
    /\ mouse' = [mouse EXCEPT !.isDown = FALSE]
    /\ UNCHANGED <<sceneVars, pageVars, listVars, revealVars, graveVars, domVars,
                   keys, yaw, pitch, camPos, camQuat>>

onMouseMove(cx, cy) ==
    /\ listeners["mousemove"] > 0
    /\ IF ~mouse.isDown
       THEN UNCHANGED <<mouse, yaw, pitch>>
       ELSE /\ Abs(yaw - SensitivityX * (cx - mouse.lastX) - PI)
                  <= MaxYaw
            /\ yaw' = yaw - SensitivityX * (cx - mouse.lastX)
            /\ pitch' = ClampPitch(pitch - SensitivityY * (cy - mouse.lastY))
            /\ mouse' = [mouse EXCEPT !.lastX = cx, !.lastY = cy]
    /\ UNCHANGED <<sceneVars, pageVars, listVars, revealVars, graveVars, domVars,
                   keys, camPos, camQuat>>

onWheel(deltaY, maxCoord) ==
    /\ listeners["wheel"] > 0
    /\ Abs(WheelPosition(camPos, camQuat, deltaY).x) <= maxCoord
    /\ Abs(WheelPosition(camPos, camQuat, deltaY).z) <= maxCoord
    /\ camPos' = WheelPosition(camPos, camQuat, deltaY)
    /\ UNCHANGED <<sceneVars, pageVars, listVars, revealVars, graveVars, domVars,
                   keys, mouse, yaw, pitch, camQuat>>

(***************************************************************************)
(* Grave: the pointer handlers.  The pointer is on the interaction mesh of *)
(* one Grave, on the Html element of one Grave, or on neither.  The screen *)
(* position reported with a record is not computed: "pixel" stands for it. *)
(***************************************************************************)
\* HomePage.handleHover, and the record of the call
handleHover(id, pos) ==
    /\ hoveredStartup' = id
    /\ tooltipPos' = pos
    /\ hoverCalls' = IF Len(hoverCalls) < 2 THEN Append(hoverCalls, id)
                     ELSE <<hoverCalls[2], id>>

\* document.body.style.cursor after pointer-over and after pointer-out
CursorOver == "pointer"
CursorOut == "crosshair"

handlePointerOver(id) ==
    /\ pointer.kind = "none"
    /\ id \in DOMAIN hovered
    /\ hovered' = [hovered EXCEPT ![id] = TRUE]
    /\ cursor' = CursorOver
    /\ handleHover(id, "pixel")
    /\ pointer' = [kind |-> "mesh", id |-> id, before |-> cursor]
    /\ UNCHANGED <<sceneVars, allStartups, activeSector, selectedStartup, listVars,
                   revealVars, showLabel, camRead, cameraVars>>

handlePointerOut ==
    /\ pointer.kind = "mesh"
    /\ hovered' = [hovered EXCEPT ![pointer.id] = FALSE]
    /\ cursor' = CursorOut
    /\ handleHover(0, "null")
    /\ pointer' = [pointer EXCEPT !.kind = "none", !.id = 0]
    /\ UNCHANGED <<sceneVars, allStartups, activeSector, selectedStartup, listVars,
                   revealVars, showLabel, camRead, cameraVars>>

onMouseEnter(id) ==
    /\ pointer.kind = "none"
    /\ id \in DOMAIN showLabel
    /\ showLabel[id]
    /\ hovered' = [hovered EXCEPT ![id] = TRUE]
    /\ cursor' = CursorOver
    /\ pointer' = [kind |-> "div", id |-> id, before |-> cursor]
    /\ UNCHANGED <<sceneVars, pageVars, listVars, revealVars, showLabel, camRead, cameraVars>>

onMouseLeave ==
    /\ pointer.kind = "div"
    /\ hovered' = [hovered EXCEPT ![pointer.id] = FALSE]
    /\ cursor' = CursorOut
    /\ handleHover(0, "null")
    /\ pointer' = [pointer EXCEPT !.kind = "none", !.id = 0]
    /\ UNCHANGED <<sceneVars, allStartups, activeSector, selectedStartup, listVars,
                   revealVars, showLabel, camRead, cameraVars>>

\* handleClick of the mesh and onClick of the Html element: HomePage.handleClick
handleClick ==
    /\ pointer.kind # "none"
    /\ selectedStartup # pointer.id
    /\ selectedStartup' = pointer.id
    /\ UNCHANGED <<sceneVars, allStartups, activeSector, hoveredStartup, tooltipPos, hoverCalls,
                   listVars, revealVars, graveVars, cameraVars, domVars>>

(***************************************************************************)
(* The page with its sector filter and the progressive reveal.             *)
(***************************************************************************)
FrameTime == 100

Next ==
    \/ \E s \in {"all", "fintech", "health", "unknown"} : setActiveSector(s)
    \/ Tick(FrameTime, MaxFrames, MaxCoord)

Spec == Init /\ [][Next]_vars

(***************************************************************************)
(* A list that never changes, the camera walking forward.                  *)
(***************************************************************************)
NextFixed ==
    \/ Tick(FrameTime, MaxFrames, MaxCoord)
    \/ onKeyDown("w")
    \/ onKeyUp("w")

SpecFixed == Init /\ [][NextFixed]_vars

(***************************************************************************)
(* The camera alone, over an empty graveyard: a held key, wheel, frames and *)
(* mouse drags to the left and to the right.                               *)
(***************************************************************************)
CameraKeys == {"ArrowDown"}
MouseXs == {0, 100}
WheelDeltas == {-1000, 1000}
CameraFrameTimes == {500}

InitCamera == InitWith(MakeData(0))

NextCamera ==
    \/ \E k \in CameraKeys : onKeyDown(k)
    \/ \E k \in CameraKeys : onKeyUp(k)
    \/ \E cx \in MouseXs : onMouseDown(cx, 0)
    \/ onMouseUp
    \/ \E cx \in MouseXs : onMouseMove(cx, 0)
    \/ \E d \in WheelDeltas : onWheel(d, MaxCameraCoord)
    \/ \E dt \in CameraFrameTimes : Tick(dt, MaxCameraFrames, MaxCameraCoord)

SpecCamera == InitCamera /\ [][NextCamera]_vars

(***************************************************************************)
(* Looking up and down: mouse drags of several lengths, with a held key,   *)
(* wheel and frames.                                                       *)
(***************************************************************************)
MouseYs == {0, 100, 500}

NextLook ==
    \/ onKeyDown("w")
    \/ onKeyUp("w")
    \/ \E cy \in MouseYs : onMouseDown(0, cy)
    \/ onMouseUp
    \/ \E cy \in MouseYs : onMouseMove(0, cy)
    \/ \E d \in WheelDeltas : onWheel(d, MaxCameraCoord)
    \/ \E dt \in CameraFrameTimes : Tick(dt, MaxCameraFrames, MaxCameraCoord)

SpecLook == InitCamera /\ [][NextLook]_vars

(***************************************************************************)
(* The marker interaction: three Graves, the pointer, and the camera       *)
(* walking backwards, away from them.                                      *)
(***************************************************************************)
HoverFrameTimes == {1000}

InitHover == InitWith(MakeData(SmallData))

NextHover ==
    \/ \E id \in 1..SmallData : handlePointerOver(id)
    \/ handlePointerOut
    \/ \E id \in 1..SmallData : onMouseEnter(id)
    \/ onMouseLeave
    \/ handleClick
    \/ onKeyDown("s")
    \/ onKeyUp("s")
    \/ \E dt \in HoverFrameTimes : Tick(dt, MaxHoverFrames, MaxCoord)

SpecHover == InitHover /\ [][NextHover]_vars

(***************************************************************************)
(* The scene handed lists of every length.                                 *)
(***************************************************************************)
NextLayout == \E n \in 0..MaxLayoutN : ReplaceStartups(n)

SpecLayout == InitCamera /\ [][NextLayout]_vars

(***************************************************************************)
(* Progressive reveal                                                      *)
(***************************************************************************)
\* C1: in every reachable state, also after the list was replaced by a
\* shorter one, the visible count is at most the number of records.
VisibleCountWithinTotal == count <= Len(startups)

\* C2: a step that replaces the record list (the sector changes) leaves the
\* visible count at min(30, new total), and no other step lowers it.
ResetOnListChange ==
    [][/\ activeSector' # activeSector => count' = Min(30, Len(startups'))
       /\ activeSector' = activeSector => count' >= count]_vars

\* C3: after every frame, the camera position each marker read for its
\* distance check in that frame is the position the camera controller
\* computed in that frame.
MarkersReadUpdatedCamera ==
    \A id \in DOMAIN camRead : camRead[id] = NoRead \/ camRead[id] = camPos

\* C6: for a list of N records that never changes, after t frames the
\* visible count is min(N, min(30, N) + 8 * floor(t / 10)): 30, 37, 37, 37
\* at frames 0, 10, 20, 30 for N = 37, and 0 at every frame for N = 0.
RevealSchedule ==
    LET N == Len(startups)
    IN /\ count = Min(N, Min(30, N) + 8 * (frameRef \div 10))
       /\ N = 37 /\ frameRef \in {10, 20, 30} => count = 37
       /\ N = 37 /\ frameRef = 0 => count = 30
       /\ N = 0 => count = 0 /\ DOMAIN showLabel = {}

\* 37 records, frame 20: the reveal is complete, one advance after 30
RevealScheduleWitness ==
    Len(startups) = 37 /\ frameRef = 20 /\ count = 37 /\ Cardinality(DOMAIN showLabel) = 37

(***************************************************************************)
(* Camera                                                                  *)
(***************************************************************************)
\* C4: in every reachable state, after any mouse, key, wheel and frame
\* events, the pitch is within [-72 degrees, 30 degrees].
PitchInRange ==
    /\ pitch * 180 >= -72 * PI
    /\ pitch * 180 <= 30 * PI

\* a drag far down has run into the lower clamp, the button still held
PitchInRangeWitness ==
    /\ mouse.isDown
    /\ mouse.lastY = 500
    /\ pitch < InitPitch
    /\ (pitch - 1) * 180 < -72 * PI

\* C5: in every reachable state, also between a wheel event and the next
\* frame, the camera's height y is within [2, 15].
CameraHeightInRange == camPos.y >= 2 * 100 /\ camPos.y <= 15 * 100

\* a wheel event has moved the camera and no frame has run since
CameraHeightInRangeWitness ==
    /\ frameRef = 0
    /\ "arrowdown" \in keys
    /\ camPos.z = InitCamPos.z + 1000

(***************************************************************************)
(* Marker interaction                                                      *)
(***************************************************************************)
\* C7: in the sequence of hover callbacks, every (null, null) comes right
\* after a (record, position), and every (record, position) is followed by
\* a (null, null) as the next callback.
HoverCallsAlternate ==
    /\ Len(hoverCalls) = 1 => hoverCalls[1] # 0
    /\ Len(hoverCalls) = 2 =>
          /\ hoverCalls[2] = 0 => hoverCalls[1] # 0
          /\ hoverCalls[1] # 0 => hoverCalls[2] = 0

\* C8: in every reachable state at most one marker is hovered.
AtMostOneHovered == Cardinality({id \in DOMAIN hovered : hovered[id]}) <= 1

\* C9: the pointer handlers write no process-wide state but the cursor
\* style, and a pointer-leave leaves the cursor style as it was right
\* before the matching pointer-enter.
CursorRestoredOnLeave ==
    [][/\ pointer' # pointer => UNCHANGED <<listVars, revealVars, cameraVars>>
       /\ (/\ pointer.kind # "none"
           /\ pointer'.kind = "none"
           /\ frameRef' = frameRef) => cursor' = pointer.before]_vars

(***************************************************************************)
(* Layout                                                                  *)
(***************************************************************************)
\* ceil(sqrt(n)), by its defining property
ColumnsFor(n) == CHOOSE c \in 0..n : c * c >= n /\ (c = 0 \/ (c - 1) * (c - 1) < n)

\* C10: for every N >= 0 the layout has N positions, the one of index i in
\* the cell row = floor(i / columns), col = i mod columns of a grid of
\* columns = ceil(sqrt(N)), with y = 0; no two records share a cell, every
\* col is below columns, and N = 0 gives the empty list.
LayoutIsGrid ==
    LET N == Len(startups)
        cols == ColumnsFor(N)
        row(i) == i \div cols
        col(i) == i % cols
    IN /\ Len(gravePositions) = N
       /\ N = 0 => gravePositions = <<>>
       /\ \A i \in 0..(N - 1) :
             /\ gravePositions[i + 1].y = 0
             /\ col(i) \in 0..(cols - 1)
             /\ Abs(gravePositions[i + 1].x - (2 * col(i) - cols) * 160) <= 25
             /\ Abs(gravePositions[i + 1].z - row(i) * 320) <= 25
       /\ \A i, j \in 0..(N - 1) :
             i # j => /\ <<row(i), col(i)>> # <<row(j), col(j)>>
                      /\ gravePositions[i + 1] # gravePositions[j + 1]

\* ten records in four columns: the last one is in row 2, column 1
LayoutIsGridWitness ==
    /\ Len(startups) = 10
    /\ Len(gravePositions) = 10
    /\ Abs(gravePositions[10].z - 640) <= 25
    /\ Abs(gravePositions[10].x + 320) <= 25

\* C11: when a list is replaced by one at least as long, every record of the
\* old list keeps its grid cell (row, col) and, its jitter draws being the
\* same, its position.
AppendKeepsPositions ==
    [][Len(startups') >= Len(startups) =>
          \A i \in 1..Len(startups) :
             /\ GraveRow(i - 1, GraveCols(Len(startups')))
                   = GraveRow(i - 1, GraveCols(Len(startups)))
             /\ GraveCol(i - 1, GraveCols(Len(startups')))
                   = GraveCol(i - 1, GraveCols(Len(startups)))
             /\ gravePositions'[i] = gravePositions[i]]_vars

(***************************************************************************)
(* seededRandom on its own: closures are made from seeds of every kind and *)
(* called in any interleaving.                                             *)
(***************************************************************************)
RngSeeds == {123, 0, -7, Modulus}

\* const rng = seededRandom(seed)
seededRandom(seed) ==
    /\ Len(rngs) < MaxRngs
    /\ rngs' = Append(rngs, NewClosure(seed))
    /\ UNCHANGED <<pageVars, listVars, revealVars, graveVars, cameraVars,
                   domVars, listeners>>

\* rng(), of the i-th closure made
rng(i) ==
    /\ Len(rngs[i].out) < MaxDraws
    /\ rngs' = CallClosure(rngs, i)
    /\ UNCHANGED <<pageVars, listVars, revealVars, graveVars, cameraVars,
                   domVars, listeners>>

NextRng ==
    \/ \E seed \in RngSeeds : seededRandom(seed)
    \/ \E i \in 1..Len(rngs) : rng(i)

SpecRng == InitCamera /\ [][NextRng]_vars

\* C12: whatever the seed (0, negative and multiples of 2147483647
\* included), every value a closure returns is >= 0 and < 1, and the state
\* after every call is an integer in 1..2147483646.
RngValuesInRange ==
    \A i \in 1..Len(rngs) :
        /\ \A k \in 1..Len(rngs[i].out) :
              rngs[i].out[k] >= 0 /\ rngs[i].out[k] < Scale
        /\ Len(rngs[i].out) >= 1 => rngs[i].s >= 1 /\ rngs[i].s <= Modulus - 1

\* a + b modulo 2147483647, for a and b in 0..2147483646
AddMod(a, b) == IF a >= Modulus - b THEN a - (Modulus - b) ELSE a + b

\* a * b modulo 2147483647, for a and b in 0..2147483646, by doubling
RECURSIVE TimesMod(_, _)
TimesMod(a, b) ==
    IF b = 0 THEN 0
    ELSE CHOOSE r \in {IF b % 2 = 1 THEN AddMod(AddMod(h, h), a)
                                     ELSE AddMod(h, h) :
                           h \in {TimesMod(a, b \div 2)}} : TRUE

\* 16807^k modulo 2147483647
RECURSIVE PowerMod(_)
PowerMod(k) == IF k = 0 THEN 1 ELSE TimesMod(PowerMod(k - 1), Multiplier)

\* seed * 16807^k modulo 2147483647, with the sign of the seed
StateAt(seed, k) ==
    IF seed < 0 THEN -TimesMod((-seed) % Modulus, PowerMod(k))
    ELSE TimesMod(seed % Modulus, PowerMod(k))

\* C13: in every interleaving of the calls of any closures, the k-th value
\* a closure returns is the value of seed * 16807^k mod 2147483647 for its
\* own seed, so two closures of one seed return the same sequence.
RngStreamsIndependent ==
    /\ \A i \in 1..Len(rngs) :
          /\ Len(rngs[i].out) >= 1 =>
                rngs[i].s = StateAt(rngs[i].seed, Len(rngs[i].out))
          /\ \A k \in 1..Len(rngs[i].out) :
                rngs[i].out[k] = seededRandomValue(StateAt(rngs[i].seed, k))
    /\ \A i, j \in 1..Len(rngs) :
          rngs[i].seed = rngs[j].seed =>
             \A k \in 1..Min(Len(rngs[i].out), Len(rngs[j].out)) :
                rngs[i].out[k] = rngs[j].out[k]

\* two closures of seed 123, the first called three times and the second
\* twice: the second call of each returned the same value
RngStreamsIndependentWitness ==
    /\ Len(rngs) = 2
    /\ rngs[1].seed = 123 /\ rngs[2].seed = 123
    /\ Len(rngs[1].out) = 3 /\ Len(rngs[2].out) = 2
    /\ rngs[2].out[2] = rngs[1].out[2]
    /\ rngs[2].out[2] # rngs[2].out[1]

(***************************************************************************)
(* Label visibility                                                        *)
(***************************************************************************)
\* the square of the distance between two points, in square hundredths
DistanceSquared(p, g) ==
    (p.x - g.x) * (p.x - g.x) + (p.y - g.y) * (p.y - g.y)
        + (p.z - g.z) * (p.z - g.z)

\* C14: after every frame, the label of each Grave that read the camera's
\* position in it is shown if and only if the distance it read is below 22
\* units; no step other than a frame changes the label of a mounted Grave.
LabelFollowsDistance ==
    [][\A id \in DOMAIN showLabel \cap DOMAIN showLabel' :
          /\ frameRef' # frameRef =>
                (showLabel'[id] <=>
                    DistanceSquared(camRead'[id],
                                    gravePositions[IndexOfId(startups, id)])
                        < 2200 * 2200)
          /\ showLabel'[id] # showLabel[id] => frameRef' # frameRef]_vars

\* a Grave whose label was shown has read the camera 22 units away or more
\* and hides its label
LabelFollowsDistanceWitness ==
    /\ frameRef >= 3
    /\ \E id \in DOMAIN showLabel :
          /\ ~showLabel[id]
          /\ "none" \notin DOMAIN camRead[id]
          /\ DistanceSquared(camRead[id], gravePositions[IndexOfId(startups, id)])
                >= 2200 * 2200
          /\ DistanceSquared(InitCamPos, gravePositions[IndexOfId(startups, id)])
                < 2200 * 2200

(***************************************************************************)
(* The walk alone: one frame of CameraControls from every set of held      *)
(* keys, at several yaws and pitches the drags before it can have left.    *)
(***************************************************************************)
WalkKeys == {"w", "s", "a", "d", "arrowup", "arrowdown", "arrowleft", "arrowright"}
WalkYaws == {PI, PI - 3000, PI + 15720, PI - 31410}
WalkPitches == {InitPitch, PitchMin, PitchMax}
WalkFrameTimes == {300, 1000}

\* the state before the first frame, after the keys of held were pressed and
\* drags turned the camera to yw and pt
InitHeld(held, yw, pt) ==
    /\ allStartups = <<>>
    /\ activeSector = "all"
    /\ hoveredStartup = 0
    /\ tooltipPos = "null"
    /\ selectedStartup = 0
    /\ hoverCalls = <<>>
    /\ startups = <<>>
    /\ gravePositions = <<>>
    /\ count = 0
    /\ frameRef = 0
    /\ subscribers = InitialSubscribers(<<>>)
    /\ showLabel = <<>>
    /\ hovered = <<>>
    /\ camRead = <<>>
    /\ keys = held
    /\ mouse = [isDown |-> FALSE, lastX |-> 0, lastY |-> 0]
    /\ yaw = yw
    /\ pitch = pt
    /\ camPos = InitCamPos
    /\ camQuat = [yaw |-> PI, pitch |-> CanvasPitch]
    /\ cursor = ""
    /\ pointer = NoPointer
    /\ listeners = AddListeners(NoListeners)
    /\ rngs = <<>>

InitWalk ==
    \E held \in SUBSET WalkKeys, yw \in WalkYaws, pt \in WalkPitches :
        InitHeld(held, yw, pt)

NextWalk == \E dt \in WalkFrameTimes : Tick(dt, MaxWalkFrames, MaxCoord)

SpecWalk == InitWalk /\ [][NextWalk]_vars

\* [letter key or arrow key of the first direction held] minus [... of the
\* second], for the keys held
Axis(held, plus, minus) ==
    (IF held \cap plus # {} THEN 1 ELSE 0) - (IF held \cap minus # {} THEN 1 ELSE 0)

\* 8 * dt * (f * (-sin yaw, 0, -cos yaw) + r * (cos yaw, 0, -sin yaw)), in
\* hundredths of a unit, dt in milliseconds
Displacement(held, yw, dt) ==
    LET f == Axis(held, {"w", "arrowup"}, {"s", "arrowdown"})
        r == Axis(held, {"d", "arrowright"}, {"a", "arrowleft"})
    IN [x |-> RDiv(((8 * dt) \div 10) * (r * Cos(yw) - f * Sin(yw)), Scale),
        y |-> 0,
        z |-> RDiv(((8 * dt) \div 10) * (-f * Cos(yw) - r * Sin(yw)), Scale)]

\* C15: a frame moves the camera by 8 * dt * (f * forward + r * right) of
\* the yaw and the keys held, to within two hundredths of a unit on each
\* axis, whatever the pitch; y does not move.
FrameDisplacement ==
    [][frameRef' # frameRef =>
          \E dt \in WalkFrameTimes :
             /\ Abs(camPos'.x - camPos.x - Displacement(keys, yaw, dt).x) <= 2
             /\ camPos'.y = camPos.y
             /\ Abs(camPos'.z - camPos.z - Displacement(keys, yaw, dt).z) <= 2]_vars

\* forward and back held together cancel while left moves the camera, at the
\* initial yaw and a pitch at its upper clamp
FrameDisplacementWitness ==
    /\ frameRef = 1
    /\ keys = {"w", "arrowdown", "arrowleft"}
    /\ yaw = PI
    /\ pitch = PitchMax
    /\ camPos.z = InitCamPos.z
    /\ camPos.x = 800

(***************************************************************************)
(* Teardown: the page, and with it the Canvas and CameraControls, unmounts *)
(* and mounts again.  Refs and component state of the unmounted tree are   *)
(* garbage: they keep their values until the next mount replaces them.     *)
(***************************************************************************)
\* the cleanup of CameraControls' effect runs, every useFrame callback
\* unsubscribes, the frame loop stops
unmountScene ==
    /\ subscribers # <<>>
    /\ listeners' = RemoveListeners(listeners)
    /\ subscribers' = <<>>
    /\ showLabel' = <<>>
    /\ hovered' = <<>>
    /\ camRead' = <<>>
    /\ pointer' = PointerAfter(pointer, <<>>)
    /\ UNCHANGED <<pageVars, listVars, count, frameRef, cameraVars, cursor, rngs>>

\* the first render and its effects again, on new state, refs and camera;
\* document.body keeps its cursor
mountScene ==
    /\ subscribers = <<>>
    /\ activeSector' = "all"
    /\ hoveredStartup' = 0
    /\ tooltipPos' = "null"
    /\ selectedStartup' = 0
    /\ hoverCalls' = <<>>
    /\ startups' = filteredStartups(allStartups, "all")
    /\ gravePositions' = GravePositionsOf(filteredStartups(allStartups, "all"))
    /\ count' = InitialCount(filteredStartups(allStartups, "all"))
    /\ frameRef' = 0
    /\ subscribers' = InitialSubscribers(filteredStartups(allStartups, "all"))
    /\ showLabel' = [id \in MountedIds(allStartups, InitialCount(allStartups)) |-> FALSE]
    /\ hovered' = [id \in MountedIds(allStartups, InitialCount(allStartups)) |-> FALSE]
    /\ camRead' = [id \in MountedIds(allStartups, InitialCount(allStartups)) |-> NoRead]
    /\ keys' = {}
    /\ mouse' = [isDown |-> FALSE, lastX |-> 0, lastY |-> 0]
    /\ yaw' = PI
    /\ pitch' = InitPitch
    /\ camPos' = InitCamPos
    /\ camQuat' = [yaw |-> PI, pitch |-> CanvasPitch]
    /\ pointer' = NoPointer
    /\ listeners' = AddListeners(listeners)
    /\ UNCHANGED <<allStartups, cursor, rngs>>

NextTeardown ==
    \/ NextCamera
    \/ unmountScene
    \/ mountScene

SpecTeardown == InitCamera /\ [][NextTeardown]_vars

\* C16: while the scene is unmounted no listener of the six event types is
\* registered and no step changes the held keys, the drag state, yaw, pitch
\* or the camera; while it is mounted exactly one listener of each type is
\* registered, after any number of teardowns and mounts.
ListenersReleased ==
    /\ [](\A t \in DOMAIN listeners :
             listeners[t] = IF subscribers = <<>> THEN 0 ELSE 1)
    /\ [][subscribers = <<>> /\ subscribers' = <<>> => UNCHANGED cameraVars]_vars

\* torn down after keys were pressed, a drag begun and the camera moved
ListenersReleasedWitness ==
    /\ subscribers = <<>>
    /\ keys # {}
    /\ mouse.isDown
    /\ camPos # InitCamPos
    /\ \A t \in DOMAIN listeners : listeners[t] = 0

(***************************************************************************)
(* Input events and frames                                                 *)
(***************************************************************************)
\* C17: an input event between two frames leaves the camera as it is, its
\* orientation and its position changing in frames alone (the yaw and pitch
\* the drags accumulate are counted as the buffer).
InputsOnlyBuffered ==
    [][frameRef' = frameRef => camQuat' = camQuat /\ camPos' = camPos]_vars

\* C18: a wheel event moves the camera by 0.01 times its delta along
\* (-sin yaw, 0, -cos yaw) of the yaw the drags have left, to within two
\* hundredths of a unit on each axis, and leaves y, yaw and pitch alone.
WheelAlongCurrentYaw ==
    [][frameRef' = frameRef /\ camPos' # camPos =>
          /\ \E d \in WheelDeltas :
                /\ Abs(camPos'.x - camPos.x - RDiv(Sin(yaw) * d, Scale)) <= 2
                /\ Abs(camPos'.z - camPos.z - RDiv(Cos(yaw) * d, Scale)) <= 2
          /\ camPos'.y = camPos.y
          /\ yaw' = yaw
          /\ pitch' = pitch]_vars

(***************************************************************************)
(* Frames for ever: requestAnimationFrame calls the frame loop again and   *)
(* again, so a frame that can run does run.  frameRef.current grows        *)
(* without bound and is read modulo 10 alone: it is kept modulo 10 here.   *)
(***************************************************************************)
TickForever(dt) ==
    /\ subscribers # <<>>
    /\ \E st \in {FrameResult(dt)} :
          /\ camPos' = st.camPos
          /\ camQuat' = st.camQuat
          /\ frameRef' = st.frameRef % Period
          /\ count' = st.count
          /\ subscribers' = Resubscribe(subscribers, startups, st.count)
          /\ showLabel' = Remount(st.showLabel, startups, st.count, FALSE)
          /\ hovered' = Remount(hovered, startups, st.count, FALSE)
          /\ camRead' = Remount(st.camRead, startups, st.count, NoRead)
          /\ pointer' = PointerAfter(pointer, st.showLabel)
    /\ UNCHANGED <<sceneVars, pageVars, listVars, inputVars, cursor>>

InitLive == InitWith(MakeData(MidData))

NextLive ==
    \/ \E s \in {"all", "fintech", "health", "unknown"} : setActiveSector(s)
    \/ TickForever(FrameTime)

SpecLive ==
    /\ InitLive
    /\ [][NextLive]_vars
    /\ WF_vars(TickForever(FrameTime))

\* C19: unless the list changes again and again for ever, count comes to
\* equal the length of the list and stays so; with the list unchanged, a
\* count equal to the length stays equal to it in every step, and no step
\* lowers count.
EventuallyComplete ==
    /\ ([]<><<startups' # startups>>_vars) \/ <>[](count = Len(startups))
    /\ [][startups' = startups /\ count = Len(startups)
             => count' = Len(startups')]_vars
    /\ [][count' >= count]_vars



====
